---- MODULE Spec2Model ----
(***************************************************************************)
(* A model of scripts/loc_manager.py: the batch updater that keeps, for    *)
(* every repository listed in repos.txt, a sparse history of line counts   *)
(* (LOC/<key>.json), a badge (badges/<key>.json) and a chart               *)
(* (diagrams/<key>.svg).                                                   *)
(*                                                                         *)
(* Time.  `git log --since='<d> 23:59:59'` keeps the commits whose instant *)
(* is at or after 23:59:59 of day d on the runner's clock, while           *)
(* `--date=format:'%Y-%m-%d'` prints each commit's date in the zone the    *)
(* commit was made in.  The model measures a commit's instant in "slots":  *)
(* slot s is the interval from 23:59:59 of runner day s-1 (included) to    *)
(* 23:59:59 of runner day s (excluded), so "passes --since=d" is exactly   *)
(* "slot > d".  A commit's printed date is slot + skew: skew 0 is the      *)
(* ordinary case, skew -1 a commit made at 23:59:59 sharp or in a zone     *)
(* west of the runner late in its day, skew 1 a commit made in a zone east *)
(* of the runner early in its day.  Dates are day numbers; the ISO strings *)
(* the program sorts have the same order.                                  *)
(***************************************************************************)
EXTENDS Integers, Sequences, FiniteSets, TLC

\* ------------------------------------------------------------- bounds
MaxCommits == 2    \* commits pushed to one repository
MaxSlot == 2       \* slots 1..MaxSlot
MaxLoc == 1        \* line counts 0..MaxLoc
MaxNameLen == 3    \* characters in an owner or repository name
MaxRuns == 2       \* runs of the batch

NoDate == 0        \* get_last_recorded_date's None

Slots == 1..MaxSlot
Skews == {-1, 0, 1}
Locs == 0..MaxLoc
CommitT == [slot : Slots, skew : Skews, loc : Locs]

\* ------------------------------------------------------ repository names
Chars == {"a", "-"}

RECURSIVE SeqsUpTo(_, _)
SeqsUpTo(S, n) ==
    IF n = 0 THEN {<<>>}
    ELSE LET shorter == SeqsUpTo(S, n - 1)
         IN  shorter \cup {Append(s, c) : s \in {t \in shorter : Len(t) = n - 1}, c \in S}

\* Owner and repository names as the host allows them: letters and single
\* hyphens, no hyphen first or last.
Names ==
    {s \in SeqsUpTo(Chars, MaxNameLen) :
        /\ Len(s) >= 1
        /\ s[1] # "-"
        /\ s[Len(s)] # "-"
        /\ \A i \in 1..(Len(s) - 1) : ~(s[i] = "-" /\ s[i + 1] = "-")}

\* One line of repos.txt: owner/name.
RepoIds == {o \o <<"/">> \o n : o \in Names, n \in Names}

\* repo_name.replace("/", "-")
StorageKey(repo_name) ==
    [i \in 1..Len(repo_name) |-> IF repo_name[i] = "/" THEN "-" ELSE repo_name[i]]

VARIABLES
    repos,          \* the batch read from repos.txt
    idx,            \* position of the main loop in the batch
    pc,             \* position of the program
    remote,         \* repository -> its commit log, oldest first
    locFile,        \* key -> the history document in LOC/
    badgeFile,      \* key -> the badge document in badges/
    chartFile,      \* key -> the history drawn in diagrams/
    history,        \* process_repo's locals
    last_date,
    last_lines,
    commits,
    found,
    current_lines,
    changes_made,
    tree,           \* the commit checked out in temp_repo, 0 for none
    fail,           \* how the last measurement failed: none, checkout, counter
    fault,          \* whether some command of this run failed
    settled,        \* a fault-free run ended and nothing was pushed since
    startDoc,       \* the history document as this run found it
    chartFresh,     \* whether this run wrote the chart
    owner,          \* key -> the repository whose run last wrote under it
    clean,          \* no command of any run has failed so far
    runs            \* batches started so far

vars == <<repos, idx, pc, remote, locFile, badgeFile, chartFile, history,
          last_date, last_lines, commits, found, current_lines, changes_made,
          tree, fail, fault, settled, startDoc, chartFresh, owner, clean, runs>>

locals == <<history, last_date, last_lines, commits, found, current_lines,
            changes_made, tree>>

Repo == repos[idx]
Key == StorageKey(Repo)
KeysOf(batch) == {StorageKey(batch[i]) : i \in 1..Len(batch)}
NoRepo == <<>>

Absent == [state |-> "absent", doc |-> <<>>]
Malformed == [state |-> "malformed", doc |-> <<>>]
Stored(h) == [state |-> "ok", doc |-> h]


\* ------------------------------------------------------- pure functions

\* format_number: the badge message, as <<digits before the unit, tenths,
\* unit>>.  The tenths are rounded to the nearest; the model's counts stay
\* in the last branch.
format_number(lines) ==
    IF lines > 1000000
    THEN <<(lines * 10 + 500000) \div 1000000, "M">>
    ELSE IF lines > 1000
         THEN <<(lines * 10 + 500) \div 1000, "k">>
         ELSE <<lines, "">>

get_last_recorded_date(h) ==
    IF h = <<>> THEN NoDate ELSE h[Len(h)].date

\* The running value never read back from the stored history.
InitialLastLines_Zero(h) == 0

\* history[-1]["lines"] if history else 0
InitialLastLines(h) ==
    IF h = <<>> THEN 0 ELSE h[Len(h)].lines

\* %cd under --date=format:'%Y-%m-%d': the date in the commit's own zone.
DateOf(c) == c.slot + c.skew

\* The --since option left out of the command.
PassesSince_All(c, since_date) == TRUE

\* --since='<since_date> 23:59:59', added only when since_date is given.
PassesSince(c, since_date) ==
    since_date = NoDate \/ c.slot > since_date

\* The dict daily_commits: each printed date mapped to the sha (the index in
\* the log) of the last line of the reversed log that carries it.
DailyCommits(log, since_date) ==
    LET kept == {i \in 1..Len(log) : PassesSince(log[i], since_date)}
        dates == {DateOf(log[i]) : i \in kept}
    IN  [d \in dates |->
            CHOOSE i \in kept :
                /\ DateOf(log[i]) = d
                /\ \A j \in kept : DateOf(log[j]) = d => j <= i]

\* sorted(daily_commits.items())
RECURSIVE SortedItems(_)
SortedItems(daily) ==
    IF DOMAIN daily = {} THEN <<>>
    ELSE LET d == CHOOSE x \in DOMAIN daily : \A y \in DOMAIN daily : x <= y
             rest == [y \in (DOMAIN daily) \ {d} |-> daily[y]]
         IN  <<[date |-> d, sha |-> daily[d]]>> \o SortedItems(rest)

get_daily_commits_since(log, since_date) ==
    SortedItems(DailyCommits(log, since_date))

\* tokei on the working tree as it is: the code lines of the commit checked
\* out, none in an empty tree.
TreeLines(log, t) == IF t = 0 THEN 0 ELSE log[t].loc

\* count_lines_at_commit's result: tokei's total, or 0 when it fails or its
\* output does not parse.
CountResult(log, t, tokeiOk) == IF tokeiOk THEN TreeLines(log, t) ELSE 0

\* `git checkout -q sha` through run_command: its exit status is not read,
\* so a failed checkout leaves the tree where it was.
AfterCheckout(t, sha, checkoutOk) == IF checkoutOk THEN sha ELSE t

\* Every measured day stored.
ShouldStore_Always(lines, last) == TRUE

\* Sparse storage: `if lines != last_lines`
ShouldStore(lines, last) == lines # last

\* generate_svg without its early return.
ChartDrawn_Always(h) == TRUE

\* generate_svg's `if not history: return`
ChartDrawn(h) == h # <<>>

\* ------------------------------------------------------------- states

InitLocals ==
    /\ history = <<>>
    /\ last_date = NoDate
    /\ last_lines = 0
    /\ commits = <<>>
    /\ found = 0
    /\ current_lines = 0
    /\ changes_made = FALSE
    /\ tree = 0

\* A call's locals are gone when it returns.
ResetLocals ==
    /\ history' = <<>>
    /\ last_date' = NoDate
    /\ last_lines' = 0
    /\ commits' = <<>>
    /\ found' = 0
    /\ current_lines' = 0
    /\ changes_made' = FALSE
    /\ tree' = 0

InitGhosts ==
    /\ fail = "none"
    /\ fault = FALSE
    /\ settled = FALSE
    /\ startDoc = Absent
    /\ chartFresh = FALSE
    /\ clean = TRUE

\* One repository, nothing stored, nothing pushed yet.
Init ==
    /\ repos \in {<<r>> : r \in {<<"a", "/", "a">>}}
    /\ idx = 1
    /\ pc = "idle"
    /\ remote = [r \in {repos[1]} |-> <<>>]
    /\ locFile = [k \in KeysOf(repos) |-> Absent]
    /\ badgeFile = [k \in KeysOf(repos) |-> <<>>]
    /\ chartFile = [k \in KeysOf(repos) |-> <<>>]
    /\ owner = [k \in KeysOf(repos) |-> NoRepo]
    /\ runs = 0
    /\ InitLocals
    /\ InitGhosts

\* ------------------------------------------------------------ actions

\* A push to a repository, between runs: a clone sees the log as it is when
\* it is taken.  Instants do not go back along the log.
Commit ==
    /\ pc = "idle"
    /\ \E r \in DOMAIN remote, c \in CommitT :
        /\ Len(remote[r]) < MaxCommits
        /\ DateOf(c) >= 1
        /\ remote[r] # <<>> => remote[r][Len(remote[r])].slot <= c.slot
        /\ remote' = [remote EXCEPT ![r] = Append(@, c)]
    /\ settled' = FALSE
    /\ UNCHANGED <<repos, idx, pc, locFile, badgeFile, chartFile, locals,
                   fail, fault, startDoc, chartFresh, owner, clean, runs>>

\* __main__: the batch starts with its first repository.
Start ==
    /\ pc = "idle"
    /\ runs < MaxRuns
    /\ runs' = runs + 1
    /\ idx' = 1
    /\ pc' = "load"
    /\ UNCHANGED <<repos, remote, locFile, badgeFile, chartFile, locals,
                   fail, fault, settled, startDoc, chartFresh, owner, clean>>

\* process_repo, step 1: the history document is absent or parses.
LoadHistory ==
    /\ pc = "load"
    /\ locFile[Key].state # "malformed"
    /\ history' = locFile[Key].doc
    /\ last_date' = get_last_recorded_date(history')
    /\ last_lines' = InitialLastLines(history')
    /\ commits' = <<>>
    /\ found' = 0
    /\ current_lines' = 0
    /\ changes_made' = FALSE
    /\ tree' = 0
    /\ fail' = "none"
    /\ fault' = FALSE
    /\ startDoc' = locFile[Key]
    /\ chartFresh' = FALSE
    /\ pc' = "clone"
    /\ UNCHANGED <<repos, idx, remote, locFile, badgeFile, chartFile,
                   settled, owner, clean, runs>>

\* process_repo, step 1: json.load raises on a document that does not
\* parse; nothing catches it, in process_repo or in __main__.
LoadMalformed ==
    /\ pc = "load"
    /\ locFile[Key].state = "malformed"
    /\ pc' = "crashed"
    /\ UNCHANGED <<repos, idx, remote, locFile, badgeFile, chartFile, locals,
                   fail, fault, settled, startDoc, chartFresh, owner, clean, runs>>

\* process_repo, steps 2 and 3 up to the loop: the clone succeeds (HEAD is
\* the newest commit) and the days to measure are selected.
CloneOk ==
    /\ pc = "clone"
    /\ tree' = Len(remote[Repo])
    /\ commits' = get_daily_commits_since(remote[Repo], last_date)
    /\ found' = Len(commits')
    /\ changes_made' = FALSE
    /\ current_lines' = last_lines
    /\ pc' = "backfill"
    /\ UNCHANGED <<repos, idx, remote, locFile, badgeFile, chartFile, history,
                   last_date, last_lines, fail, fault, settled, startDoc,
                   chartFresh, owner, clean, runs>>

\* process_repo, step 2: temp_repo does not exist after the clone; return.
CloneFail ==
    /\ pc = "clone"
    /\ fault' = TRUE
    /\ clean' = FALSE
    /\ pc' = "skipped"
    /\ UNCHANGED <<repos, idx, remote, locFile, badgeFile, chartFile, locals,
                   fail, settled, startDoc, chartFresh, owner, runs>>

\* One turn of `for date, sha in commits`.
MeasureDay ==
    /\ pc = "backfill"
    /\ commits # <<>>
    /\ \E checkoutOk \in BOOLEAN, tokeiOk \in BOOLEAN :
        LET day == Head(commits)
            t == AfterCheckout(tree, day.sha, checkoutOk)
            lines == CountResult(remote[Repo], t, tokeiOk)
        IN  /\ tree' = t
            /\ current_lines' = lines
            /\ IF ShouldStore(lines, last_lines)
               THEN /\ history' = Append(history, [date |-> day.date, lines |-> lines])
                    /\ last_lines' = lines
                    /\ changes_made' = TRUE
               ELSE UNCHANGED <<history, last_lines, changes_made>>
            /\ fail' = IF ~tokeiOk THEN "counter"
                       ELSE IF ~checkoutOk THEN "checkout" ELSE "none"
            /\ fault' = (fault \/ ~checkoutOk \/ ~tokeiOk)
            /\ clean' = (clean /\ checkoutOk /\ tokeiOk)
    /\ commits' = Tail(commits)
    /\ pc' = IF Tail(commits) = <<>> THEN "save" ELSE "backfill"
    /\ UNCHANGED <<repos, idx, remote, locFile, badgeFile, chartFile,
                   last_date, found, settled, startDoc, chartFresh, owner, runs>>

\* The else branch: no day was selected, count the tree as cloned.
CountHead ==
    /\ pc = "backfill"
    /\ found = 0
    /\ \E tokeiOk \in BOOLEAN :
        /\ current_lines' = CountResult(remote[Repo], tree, tokeiOk)
        /\ fail' = IF tokeiOk THEN "none" ELSE "counter"
        /\ fault' = (fault \/ ~tokeiOk)
        /\ clean' = (clean /\ tokeiOk)
    /\ pc' = "save"
    /\ UNCHANGED <<repos, idx, remote, locFile, badgeFile, chartFile, history,
                   last_date, last_lines, commits, found, changes_made, tree,
                   settled, startDoc, chartFresh, owner, runs>>

\* process_repo, steps 4 and 5 and the cleanup: the history is written if
\* it changed, the badge always, the chart unless the history is empty.
Save ==
    /\ pc = "save"
    /\ locFile' = IF changes_made THEN [locFile EXCEPT ![Key] = Stored(history)]
                  ELSE locFile
    /\ badgeFile' = [badgeFile EXCEPT ![Key] = format_number(current_lines)]
    /\ chartFile' = IF ChartDrawn(history) THEN [chartFile EXCEPT ![Key] = history]
                    ELSE chartFile
    /\ chartFresh' = ChartDrawn(history)
    /\ owner' = [owner EXCEPT ![Key] = Repo]
    /\ tree' = 0
    /\ pc' = "done"
    /\ UNCHANGED <<repos, idx, remote, history, last_date, last_lines, commits,
                   found, current_lines, changes_made, fail, fault, settled,
                   startDoc, clean, runs>>

\* open(history_path, 'w') raises: nothing catches it.
SaveFail ==
    /\ pc = "save"
    /\ changes_made
    /\ pc' = "crashed"
    /\ UNCHANGED <<repos, idx, remote, locFile, badgeFile, chartFile, locals,
                   fail, fault, settled, startDoc, chartFresh, owner, clean, runs>>

\* process_repo returns: the main loop takes the next repository, or ends.
Return ==
    /\ pc \in {"done", "skipped"}
    /\ settled' = (pc = "done" /\ ~fault /\ Len(repos) = 1)
    /\ IF idx < Len(repos)
       THEN idx' = idx + 1 /\ pc' = "load"
       ELSE idx' = idx /\ pc' = "idle"
    /\ ResetLocals
    /\ fail' = "none"
    /\ fault' = FALSE
    /\ startDoc' = Absent
    /\ chartFresh' = FALSE
    /\ UNCHANGED <<repos, remote, locFile, badgeFile, chartFile, owner, clean, runs>>

Next ==
    \/ Commit
    \/ Start
    \/ LoadHistory
    \/ CloneOk
    \/ CloneFail
    \/ MeasureDay
    \/ CountHead
    \/ Save
    \/ Return

Spec == Init /\ [][Next]_vars

\* A batch of two repositories, each with one commit; a history document
\* left under a key by earlier use may not parse.
InitBatch ==
    /\ repos \in {b \in RepoIds \X RepoIds : b[1] # b[2]}
    /\ idx = 1
    /\ pc = "idle"
    /\ \E l \in Locs :
        remote = [r \in {repos[1], repos[2]} |->
                    IF r = repos[1] THEN <<[slot |-> 1, skew |-> 0, loc |-> MaxLoc]>>
                    ELSE <<[slot |-> MaxSlot, skew |-> 0, loc |-> l]>>]
    /\ locFile \in [KeysOf(repos) -> {Absent, Malformed}]
    /\ badgeFile = [k \in KeysOf(repos) |-> <<>>]
    /\ chartFile = [k \in KeysOf(repos) |-> <<>>]
    /\ owner = [k \in KeysOf(repos) |-> NoRepo]
    /\ runs = 0
    /\ InitLocals
    /\ InitGhosts

NextBatch ==
    \/ Start
    \/ LoadHistory
    \/ LoadMalformed
    \/ CloneOk
    \/ CloneFail
    \/ MeasureDay
    \/ CountHead
    \/ Save
    \/ SaveFail
    \/ Return

SpecBatch == InitBatch /\ [][NextBatch]_vars


\* ------------------------------------------------------------ properties

Running == pc \in {"clone", "backfill", "save", "done"}
Docs == {history} \cup {locFile[k].doc : k \in DOMAIN locFile}
Measured == found - Len(commits)
NoAdjacentEqual(h) == \A i \in 1..(Len(h) - 1) : h[i].lines # h[i + 1].lines
DatesAscending(h) == \A i \in 1..(Len(h) - 1) : h[i].date < h[i + 1].date
\* The newest commit of the log that prints date d.
LastOfDay(log, d) ==
    CHOOSE i \in 1..Len(log) :
        /\ DateOf(log[i]) = d
        /\ \A j \in 1..Len(log) : DateOf(log[j]) = d => j <= i

\* C1: neither the history in memory nor any stored history document ever
\* holds two adjacent records with equal lines, whatever the counter returns.
C1_NoAdjacentEqualLines == \A h \in Docs : NoAdjacentEqual(h)

\* C1's case: a run has stored a history of at least two records.
C1_Witness ==
    /\ pc = "done"
    /\ changes_made
    /\ Len(history) >= 2
    /\ locFile[Key].doc = history

\* C2: as long as no command has failed, the days selected with since_date =
\* the last recorded date are all strictly after that date, and the record
\* dates of every history are strictly ascending, so that no date has two
\* records.
C2_SelectedAfterLastAndDatesUnique ==
    clean =>
        /\ (pc = "backfill" /\ last_date # NoDate) =>
                \A i \in 1..Len(commits) : commits[i].date > last_date
        /\ \A h \in Docs : DatesAscending(h)

\* C3: a run that follows a fault-free run with no push in between, and
\* itself meets no fault, appends nothing, sets changes_made to nothing but
\* false and leaves the stored document as it found it.
C3_SecondRunIdempotent ==
    (settled /\ ~fault /\ pc \in {"backfill", "save", "done"}) =>
        /\ ~changes_made
        /\ history = startDoc.doc
        /\ locFile[Key] = startDoc

\* C3's case: such a second run has ended its backfill after measuring
\* again a day later than the last record, which the first run had measured
\* without storing a record.
C3_Witness ==
    /\ settled
    /\ ~fault
    /\ pc = "save"
    /\ found >= 1
    /\ history # <<>>
    /\ tree # 0
    /\ DateOf(remote[Repo][tree]) > last_date
    /\ ~changes_made

\* C4, as amended: from an empty history, the first measured day is stored
\* exactly when its measured value is not 0, the value the running last
\* value starts from.
C4_FirstDayStoredIffNonZero ==
    (pc \in {"backfill", "save"} /\ startDoc.doc = <<>> /\ Measured = 1) =>
        /\ (history # <<>>) <=> (current_lines # 0)
        /\ history # <<>> =>
              /\ Len(history) = 1
              /\ history[1].lines = current_lines

\* C4's case: the first day measured, from an empty history, counts 0 lines
\* with no command failing, and no record is stored for it.
C4_Witness ==
    /\ pc \in {"backfill", "save"}
    /\ startDoc.doc = <<>>
    /\ Measured = 1
    /\ fail = "none"
    /\ current_lines = 0
    /\ history = <<>>

\* C4 as stated: from an empty history, the first measured day always
\* produces a stored record.
C4_FirstDayAlwaysStored ==
    (pc \in {"backfill", "save"} /\ startDoc.doc = <<>> /\ Measured = 1) =>
        Len(history) = 1

\* C5: whenever the measurement of a day fails, by the checkout or by the
\* counter, the count used for that day is 0.
C5_FailedMeasurementCountsZero ==
    (pc \in {"backfill", "save"} /\ fail # "none") => current_lines = 0

\* C6: a history document that does not parse is treated as no history: the
\* run goes on and nothing is raised.
C6_MalformedHistoryFailsOpen ==
    ~(pc = "crashed" /\ locFile[Key].state = "malformed")

\* C7: no failure while processing a repository stops the batch before the
\* repositories after it are processed.
C7_FailuresIsolated ==
    ~(pc = "crashed" /\ idx < Len(repos))

C9_RecordsAreEndOfDay ==
    clean =>
        /\ \A k \in DOMAIN locFile : \A i \in 1..Len(locFile[k].doc) :
              LET rec == locFile[k].doc[i]
                  log == remote[Repo]
              IN  /\ \E j \in 1..Len(log) : DateOf(log[j]) = rec.date
                  /\ rec.lines = log[LastOfDay(log, rec.date)].loc
        /\ (pc = "done" /\ history # <<>>) =>
              current_lines = history[Len(history)].lines

\* C10: the documents under the key of the repository being processed were
\* written by no other repository.
C10_KeysNotShared ==
    (pc \in {"clone", "backfill", "save"}) => owner[Key] \in {NoRepo, Repo}

====
